---- MODULE Spec2Model ----
(***************************************************************************)
(* Session lifecycle controller of the Jupyter server API                  *)
(* (jupyter-server/app/app/apis/namespace_servers.py, class Server), the   *)
(* tables of the orchest-api database (orchest-api/app/app/models.py) and  *)
(* write_config of the webserver (orchest-webserver/app/app/utils.py).     *)
(*                                                                         *)
(* The handlers get / post / delete run on request-handling workers that   *)
(* share one handshake file (connection_file) and the operating system's   *)
(* processes.  Every handler is cut at the points where another worker or  *)
(* the child process can interleave: a file-system call, a process call,   *)
(* a blocking read.  The three components share no state: each has its     *)
(* own specifications, which leave the others at rest.                     *)
(***************************************************************************)
EXTENDS Integers, Sequences, FiniteSets, TLC

\* Number of request-handling workers.
NumWorkers == 2

\* Number of server processes that can be spawned in one behaviour.
MaxProcs == 2

Workers == 1..NumWorkers

Pids == 1..MaxProcs

VARIABLES
    connection_file,  \* content of tmp/server_info.json: <<>> (absent) or <<descriptor>>
    procs,            \* the spawned server processes, by pid
    pc,               \* per worker: the handler position
    proc,             \* per worker: the Popen handle held by post (0: none)
    line,             \* per worker: what post read from the child's stdout
    lastCall,         \* what the last start or stop returned, until a start spawns
    lastGet           \* what the last get returned, until the session is touched

\* The state of the session controller.
session == <<connection_file, procs, pc, proc, line, lastCall, lastGet>>

VARIABLES
    post_body,        \* a request body of post, as the ordered pairs of post_data.items()
    popen_args        \* the argument list built from it: <<>> until built, then <<list>>

\* The state of the argument builder taken alone.
builder == <<post_body, popen_args>>

VARIABLES
    foreign_keys,     \* whether the database engine enforces foreign keys
    experiments,      \* table 'experiments'
    interactive_runs, \* table 'interactive_runs'
    interactive_run_pipeline_steps,      \* table 'interactive_run_pipeline_steps'
    non_interactive_runs,                \* table 'non_interactive_runs', in insertion order
    non_interactive_run_pipeline_steps,  \* table 'non_interactive_run_pipeline_steps'
    db_result         \* the outcome of the last statement

\* The state of the orchest-api database.
database == <<foreign_keys, experiments, interactive_runs, interactive_run_pipeline_steps,
              non_interactive_runs, non_interactive_run_pipeline_steps, db_result>>

VARIABLES
    config_json,      \* /config/config.json: [exists, text]
    app_config,       \* app.config of the webserver, as ordered pairs
    write             \* per caller of write_config: position, arguments and locals

\* The state of the webserver's configuration.
configuration == <<config_json, app_config, write>>

vars == <<session, builder, database, configuration>>

----------------------------------------------------------------------------
\* The request bodies accepted by post: the 'Jupyter Config' model, a mapping
\* kept in insertion order (a Python dict), here a sequence of <<key, value>>.
Configs ==
    { << <<"gateway-url", "http://eg:8888">>, <<"NotebookApp.base_url", "/lab">> >>,
      << <<"NotebookApp.base_url", "/">>, <<"gateway-url", "http://eg:8888">> >> }

\* Fields of the 'Server' model.
ServerFields ==
    {"url", "hostname", "port", "secure", "base_url", "token",
     "notebook_dir", "password", "pid"}

\* Default of a field of the 'Server' model (None unless the model sets one).
server_default(k) ==
    CASE k = "hostname" -> "localhost"
      [] k = "base_url" -> "/"
      [] OTHER -> "None"

\* marshal, were a field that has a default always given its default.
marshal_defaults(data) ==
    [k \in ServerFields |->
        IF k \in DOMAIN data /\ k \notin {"hostname", "base_url"}
          THEN data[k] ELSE server_default(k)]

\* api.marshal(fields=server, data=...) and @api.marshal_with(server): the
\* model's fields, each taken from the data or else from its default.
marshal(data) ==
    [k \in ServerFields |-> IF k \in DOMAIN data THEN data[k] ELSE server_default(k)]

\* The argument list post builds for the subprocess.
start_script == "core/start_server.py"

\* The argument list with the entries in the reverse of the iteration order.
args_reversed(post_data) ==
    <<"python", "-u", start_script>> \o
    [i \in 1..Len(post_data) |->
        <<"--", post_data[Len(post_data) + 1 - i][1], "=", post_data[Len(post_data) + 1 - i][2]>>]

args(post_data) ==
    <<"python", "-u", start_script>> \o
    [i \in 1..Len(post_data) |-> <<"--", post_data[i][1], "=", post_data[i][2]>>]

----------------------------------------------------------------------------
\* The child process (core/start_server.py).

\* The value the child was given for an option, from its argument list.
option(argv, key) ==
    LET i == CHOOSE i \in 4..Len(argv) : argv[i][2] = key
    IN  argv[i][4]

\* The descriptor the child persists once it has bound its endpoint.
server_info(p) ==
    LET base == option(procs[p].args, "NotebookApp.base_url")
    IN  [url          |-> <<"http://localhost:8888", base>>,
         hostname     |-> "localhost",
         port         |-> 8888,
         secure       |-> FALSE,
         base_url     |-> base,
         token        |-> <<"token", p>>,
         notebook_dir |-> "/notebooks",
         password     |-> FALSE,
         pid          |-> p]

\* The lines a child may print to signal readiness: the text is free.
Lines == {"Initialized JupyterLab instance", "ok"}

\* A process: its stage of life, the unread content of its stdout pipe and
\* its argument list (gone with the process when it ends).
NoProc == [status |-> "none", stdout |-> <<>>, args |-> <<>>]

Running(p) == procs[p].status \in {"booting", "wrote", "ready"}

Alive == {p \in Pids : Running(p)}

\* The child writes its descriptor into the handshake file, overwriting it.
ChildWriteInfo(p) ==
    /\ procs[p].status = "booting"
    /\ connection_file' = <<server_info(p)>>
    /\ procs' = [procs EXCEPT ![p].status = "wrote"]
    /\ lastGet' = <<>>
    /\ UNCHANGED <<pc, proc, line, lastCall>>
    /\ UNCHANGED <<builder, database, configuration>>

\* The child prints its one readiness line, after the descriptor is on file.
ChildPrintReady(p) ==
    /\ procs[p].status = "wrote"
    /\ \E l \in Lines : procs' = [procs EXCEPT ![p].status = "ready", ![p].stdout = <<l>>]
    /\ UNCHANGED <<connection_file, pc, proc, line, lastCall, lastGet>>
    /\ UNCHANGED <<builder, database, configuration>>

\* The child exits on its own (a crash), at any point of its life.
ChildExit(p) ==
    /\ Running(p)
    /\ procs' = [procs EXCEPT ![p].status = "exited", ![p].args = <<>>]
    /\ UNCHANGED <<connection_file, pc, proc, line, lastCall, lastGet>>
    /\ UNCHANGED <<builder, database, configuration>>

----------------------------------------------------------------------------
\* Responses.

Message(code, text) == [code |-> code, message |-> text, body |-> <<>>]

Descriptor(code, data) == [code |-> code, message |-> "", body |-> <<data>>]

\* An exception that leaves the handler: the framework answers 500.
Fault(exception) == [code |-> 500, message |-> exception, body |-> <<>>]

\* A worker takes a request and enters the handler of its method.
Dispatch(w, entry) ==
    /\ pc[w] = "idle"
    /\ pc' = [pc EXCEPT ![w] = entry]
    /\ UNCHANGED <<connection_file, procs, proc, line, lastCall, lastGet>>
    /\ UNCHANGED <<builder, database, configuration>>

Request(w) == \E entry \in {"get_exists", "post_popen", "delete_shutdown"} : Dispatch(w, entry)

\* Whether worker w is the only one inside a handler.
Alone(w) == \A v \in Workers \ {w} : pc[v] = "idle"

\* What is kept of a response r: every fault, and every result of a call
\* that ended with no other request in the controller.
Kept(w, r) == IF r.response.code = 500 \/ Alone(w) THEN <<r>> ELSE <<>>

\* get returns response r (again: right after another get that was kept).
ReturnGet(w, r) ==
    /\ pc' = [pc EXCEPT ![w] = "idle"]
    /\ lastGet' = Kept(w, [response |-> r, again |-> lastGet # <<>>])
    /\ UNCHANGED lastCall

\* post or delete returns response r (post: ready tells whether it had read
\* a line from the child, and not the end of the file).
ReturnCall(w, op, r, ready) ==
    /\ pc' = [pc EXCEPT ![w] = "idle"]
    /\ lastCall' = Kept(w, [op |-> op, response |-> r, ready |-> ready])

----------------------------------------------------------------------------
\* Server.get

\* if not os.path.exists(self.connection_file): return ..., 404
ServerGetExists(w) ==
    /\ pc[w] = "get_exists"
    /\ IF connection_file = <<>>
         THEN ReturnGet(w, Message(404, "No running server"))
         ELSE /\ pc' = [pc EXCEPT ![w] = "get_load"]
              /\ UNCHANGED <<lastCall, lastGet>>
    /\ UNCHANGED <<connection_file, procs, proc, line>>
    /\ UNCHANGED <<builder, database, configuration>>

\* get, were it to consume the handshake file it has read.
ServerGetLoad_consume(w) ==
    /\ pc[w] = "get_load"
    /\ IF connection_file = <<>>
         THEN ReturnGet(w, Fault("FileNotFoundError"))
         ELSE ReturnGet(w, Descriptor(200, marshal(connection_file[1])))
    /\ connection_file' = <<>>
    /\ UNCHANGED <<procs, proc, line>>
    /\ UNCHANGED <<builder, database, configuration>>

\* with open(self.connection_file, 'r') as f: server_info = json.load(f)
\* return api.marshal(fields=server, data=server_info), 200
ServerGetLoad(w) ==
    /\ pc[w] = "get_load"
    /\ IF connection_file = <<>>
         THEN ReturnGet(w, Fault("FileNotFoundError"))
         ELSE ReturnGet(w, Descriptor(200, marshal(connection_file[1])))
    /\ UNCHANGED <<connection_file, procs, proc, line>>
    /\ UNCHANGED <<builder, database, configuration>>

----------------------------------------------------------------------------
\* Server.post

\* post, were it to refuse to spawn while a descriptor is on file.
ServerPostPopen_guarded(w) ==
    /\ pc[w] = "post_popen"
    /\ connection_file = <<>>
    /\ \E post_data \in Configs, p \in Pids :
         /\ procs[p].status = "none"
         /\ \A q \in Pids : q < p => procs[q].status # "none"
         /\ procs' = [procs EXCEPT ![p] =
                        [status |-> "booting", stdout |-> <<>>, args |-> args(post_data)]]
         /\ proc' = [proc EXCEPT ![w] = p]
    /\ pc' = [pc EXCEPT ![w] = "post_readline"]
    /\ lastCall' = <<>>
    /\ lastGet' = <<>>
    /\ UNCHANGED <<connection_file, line>>
    /\ UNCHANGED <<builder, database, configuration>>

\* proc = subprocess.Popen(args=args, stdout=subprocess.PIPE)
\* No look at the handshake file or at a server already running comes first.
ServerPostPopen(w) ==
    /\ pc[w] = "post_popen"
    /\ \E post_data \in Configs, p \in Pids :
         /\ procs[p].status = "none"
         /\ \A q \in Pids : q < p => procs[q].status # "none"
         /\ procs' = [procs EXCEPT ![p] =
                        [status |-> "booting", stdout |-> <<>>, args |-> args(post_data)]]
         /\ proc' = [proc EXCEPT ![w] = p]
    /\ pc' = [pc EXCEPT ![w] = "post_readline"]
    /\ lastCall' = <<>>
    /\ lastGet' = <<>>
    /\ UNCHANGED <<connection_file, line>>
    /\ UNCHANGED <<builder, database, configuration>>

\* post, were its read to return only on a line, never at the end of the file.
ServerPostReadline_line_only(w) ==
    /\ pc[w] = "post_readline"
    /\ procs[proc[w]].stdout # <<>>
    /\ line' = [line EXCEPT ![w] = procs[proc[w]].stdout[1]]
    /\ procs' = [procs EXCEPT ![proc[w]].stdout = <<>>]
    /\ pc' = [pc EXCEPT ![w] = "post_load"]
    /\ UNCHANGED <<connection_file, proc, lastCall, lastGet>>
    /\ UNCHANGED <<builder, database, configuration>>

\* _ = proc.stdout.readline(): returns the line once the child has written
\* one, or the empty string at end of file, once the child has ended and
\* closed its end of the pipe.
ServerPostReadline(w) ==
    /\ pc[w] = "post_readline"
    /\ \/ procs[proc[w]].stdout # <<>>
       \/ ~Running(proc[w])
    /\ line' = [line EXCEPT ![w] =
                  IF procs[proc[w]].stdout # <<>> THEN procs[proc[w]].stdout[1] ELSE ""]
    /\ procs' = [procs EXCEPT ![proc[w]].stdout = <<>>]
    /\ pc' = [pc EXCEPT ![w] = "post_load"]
    /\ UNCHANGED <<connection_file, proc, lastCall, lastGet>>
    /\ UNCHANGED <<builder, database, configuration>>

\* with open(self.connection_file, 'r') as f: server_info = json.load(f)
\* return server_info, 201     (marshalled with the 'Server' model)
ServerPostLoad(w) ==
    /\ pc[w] = "post_load"
    /\ IF connection_file = <<>>
         THEN ReturnCall(w, "post", Fault("FileNotFoundError"), line[w] # "")
         ELSE ReturnCall(w, "post", Descriptor(201, marshal(connection_file[1])),
                         line[w] # "")
    /\ proc' = [proc EXCEPT ![w] = 0]
    /\ line' = [line EXCEPT ![w] = ""]
    /\ UNCHANGED <<connection_file, procs, lastGet>>
    /\ UNCHANGED <<builder, database, configuration>>

----------------------------------------------------------------------------
\* Server.delete

\* Supervisor.terminate: whether a running server was found through the
\* descriptor on file (and is then stopped).
shutdown_jupyter_server(file) ==
    /\ file # <<>>
    /\ Running(file[1].pid)

\* delete, were it to go on to the removal whatever termination reported.
ServerDeleteShutdown_unchecked(w) ==
    /\ pc[w] = "delete_shutdown"
    /\ IF shutdown_jupyter_server(connection_file)
         THEN procs' = [procs EXCEPT ![connection_file[1].pid].status = "exited",
                                     ![connection_file[1].pid].args = <<>>]
         ELSE UNCHANGED procs
    /\ pc' = [pc EXCEPT ![w] = "delete_remove"]
    /\ lastGet' = <<>>
    /\ UNCHANGED <<connection_file, proc, line, lastCall>>
    /\ UNCHANGED <<builder, database, configuration>>

\* success = shutdown_jupyter_server(self.connection_file)
\* if not success: return {'message': 'No running server'}, 404
ServerDeleteShutdown(w) ==
    /\ pc[w] = "delete_shutdown"
    /\ IF shutdown_jupyter_server(connection_file)
         THEN /\ procs' = [procs EXCEPT ![connection_file[1].pid].status = "exited",
                                        ![connection_file[1].pid].args = <<>>]
              /\ pc' = [pc EXCEPT ![w] = "delete_remove"]
              /\ UNCHANGED lastCall
         ELSE /\ ReturnCall(w, "delete", Message(404, "No running server"), FALSE)
              /\ UNCHANGED procs
    /\ lastGet' = <<>>
    /\ UNCHANGED <<connection_file, proc, line>>
    /\ UNCHANGED <<builder, database, configuration>>

\* delete, were it to report success and leave the handshake file in place.
ServerDeleteRemove_keep(w) ==
    /\ pc[w] = "delete_remove"
    /\ ReturnCall(w, "delete", Message(200, "Server shutdown was successful"), FALSE)
    /\ lastGet' = <<>>
    /\ UNCHANGED <<connection_file, procs, proc, line>>
    /\ UNCHANGED <<builder, database, configuration>>

\* os.remove(self.connection_file)
\* return {'message': 'Server shutdown was successful'}, 200
ServerDeleteRemove(w) ==
    /\ pc[w] = "delete_remove"
    /\ IF connection_file = <<>>
         THEN /\ ReturnCall(w, "delete", Fault("FileNotFoundError"), FALSE)
              /\ UNCHANGED connection_file
         ELSE /\ connection_file' = <<>>
              /\ ReturnCall(w, "delete", Message(200, "Server shutdown was successful"), FALSE)
    /\ lastGet' = <<>>
    /\ UNCHANGED <<procs, proc, line>>
    /\ UNCHANGED <<builder, database, configuration>>

----------------------------------------------------------------------------
\* The argument builder of post, taken alone on arbitrary request bodies.

\* The largest number of entries of a request body.
MaxEntries == 3

ConfigKeys == {"gateway-url", "NotebookApp.base_url", "NotebookApp.port"}

ConfigValues == {"http://eg:8888", "/lab"}

\* post_data.items(): the pairs of a mapping in its iteration order, every key once.
Bodies ==
    {b \in UNION {[1..n -> ConfigKeys \X ConfigValues] : n \in 0..MaxEntries} :
        \A i, j \in DOMAIN b : i # j => b[i][1] # b[j][1]}

\* post_data = request.get_json()
ReceiveBody ==
    /\ popen_args # <<>>
    /\ post_body' \in Bodies
    /\ popen_args' = <<>>
    /\ UNCHANGED <<session, database, configuration>>

\* args = ["python", "-u", start_script] + ["--" + k + "=" + v for k, v in post_data.items()]
BuildArgs ==
    /\ popen_args = <<>>
    /\ popen_args' = <<args(post_body)>>
    /\ UNCHANGED <<post_body, session, database, configuration>>

NoBody == post_body = <<>> /\ popen_args = <<>>

----------------------------------------------------------------------------
\* The tables of the orchest-api database (orchest-api/app/app/models.py).
\* A table is the set of its rows; non_interactive_runs keeps the order in
\* which its rows were inserted.

\* The largest number of rows in the database.
MaxRows == 4

ExperimentUuids == {"e1", "e2"}

RunUuids == {"r1", "r2"}

StepUuids == {"s1", "s2"}

\* Values of the status column of a step.
Statuses == {"PENDING", "STARTED"}

\* The primary keys.
ExperimentKey == {"experiment_uuid"}

InteractiveRunKey == {"run_uuid"}

InteractiveRunPipelineStepKey == {"run_uuid", "step_uuid"}

NonInteractiveRunKey == {"experiment_uuid", "run_uuid"}

NonInteractiveRunPipelineStepKey == {"experiment_uuid", "run_uuid", "step_uuid"}

Rows(table) == {table[i] : i \in DOMAIN table}

TotalRows ==
    Cardinality(experiments) + Cardinality(interactive_runs)
    + Cardinality(interactive_run_pipeline_steps)
    + Len(non_interactive_runs) + Cardinality(non_interactive_run_pipeline_steps)

\* The rows of a table that have the primary key of a row.
WithKey(table, row, key) == {t \in table : \A c \in key : t[c] = row[c]}

\* INSERT with no primary key.
Insert_unkeyed(table, row, key) == table \cup {row}

\* INSERT under a primary key: a row whose key is taken is refused.
Insert(table, row, key) ==
    IF WithKey(table, row, key) = {} THEN table \cup {row} ELSE table

\* INSERT that replaces the row holding the key.
InsertRun_replace(table, row) ==
    Append(SelectSeq(table, LAMBDA t : \E c \in NonInteractiveRunKey : t[c] # row[c]), row)

\* INSERT into non_interactive_runs, under its primary key.
InsertRun(table, row) ==
    IF WithKey(Rows(table), row, NonInteractiveRunKey) = {} THEN Append(table, row) ELSE table

Ok == "ok"

UniqueFailed == "IntegrityError: UNIQUE constraint failed"

ForeignKeyFailed == "IntegrityError: FOREIGN KEY constraint failed"

Result(statement, outcome) == [statement |-> statement, outcome |-> outcome]

\* Experiment(experiment_uuid=e, ...) added and committed.
InsertExperiment(e) ==
    /\ TotalRows < MaxRows
    /\ LET row == [experiment_uuid |-> e, pipeline_uuid |-> "p1"]
           new == Insert(experiments, row, ExperimentKey)
       IN  /\ experiments' = new
           /\ db_result' = Result("insert experiment",
                                  IF new = experiments THEN UniqueFailed ELSE Ok)
    /\ UNCHANGED <<foreign_keys, interactive_runs, interactive_run_pipeline_steps,
                   non_interactive_runs, non_interactive_run_pipeline_steps>>
    /\ UNCHANGED <<session, builder, configuration>>

\* InteractiveRun(run_uuid=r, ...) added and committed.
InsertInteractiveRun(r) ==
    /\ TotalRows < MaxRows
    /\ LET row == [run_uuid |-> r, pipeline_uuid |-> "p1"]
           new == Insert(interactive_runs, row, InteractiveRunKey)
       IN  /\ interactive_runs' = new
           /\ db_result' = Result("insert interactive run",
                                  IF new = interactive_runs THEN UniqueFailed ELSE Ok)
    /\ UNCHANGED <<foreign_keys, experiments, interactive_run_pipeline_steps,
                   non_interactive_runs, non_interactive_run_pipeline_steps>>
    /\ UNCHANGED <<session, builder, configuration>>

\* InteractiveRunPipelineStep(run_uuid=r, step_uuid=s, status=st) added and committed.
InsertInteractiveRunPipelineStep(r, s, st) ==
    /\ TotalRows < MaxRows
    /\ LET row == [run_uuid |-> r, step_uuid |-> s, status |-> st]
           new == Insert(interactive_run_pipeline_steps, row, InteractiveRunPipelineStepKey)
           parent == \E t \in interactive_runs : t.run_uuid = r
       IN  IF foreign_keys /\ ~parent
             THEN /\ db_result' = Result("insert interactive step", ForeignKeyFailed)
                  /\ UNCHANGED interactive_run_pipeline_steps
             ELSE /\ interactive_run_pipeline_steps' = new
                  /\ db_result' = Result("insert interactive step",
                         IF new = interactive_run_pipeline_steps THEN UniqueFailed ELSE Ok)
    /\ UNCHANGED <<foreign_keys, experiments, interactive_runs,
                   non_interactive_runs, non_interactive_run_pipeline_steps>>
    /\ UNCHANGED <<session, builder, configuration>>

\* NonInteractiveRunPipelineStep(experiment_uuid=e, run_uuid=r, step_uuid=s,
\* status=st) added and committed.
InsertNonInteractiveRunPipelineStep(e, r, s, st) ==
    /\ TotalRows < MaxRows
    /\ LET row == [experiment_uuid |-> e, run_uuid |-> r, step_uuid |-> s, status |-> st]
           new == Insert(non_interactive_run_pipeline_steps, row,
                         NonInteractiveRunPipelineStepKey)
           parents == /\ \E t \in experiments : t.experiment_uuid = e
                      /\ \E t \in Rows(non_interactive_runs) : t.run_uuid = r
       IN  IF foreign_keys /\ ~parents
             THEN /\ db_result' = Result("insert non-interactive step", ForeignKeyFailed)
                  /\ UNCHANGED non_interactive_run_pipeline_steps
             ELSE /\ non_interactive_run_pipeline_steps' = new
                  /\ db_result' = Result("insert non-interactive step",
                         IF new = non_interactive_run_pipeline_steps THEN UniqueFailed ELSE Ok)
    /\ UNCHANGED <<foreign_keys, experiments, interactive_runs,
                   interactive_run_pipeline_steps, non_interactive_runs>>
    /\ UNCHANGED <<session, builder, configuration>>

\* The runs of an experiment, in the order of their insertion.
RunsOf(e) == SelectSeq(non_interactive_runs, LAMBDA t : t.experiment_uuid = e)

\* The pipeline_run_id an experiment gives to its next run.
next_pipeline_run_id(e) == Len(RunsOf(e))

\* An experiment creates a run: the run row, numbered by the experiment, and
\* the rows of its steps, in one transaction.
CreateNonInteractiveRun(e, r, steps) ==
    /\ \E t \in experiments : t.experiment_uuid = e
    /\ TotalRows + 1 + Cardinality(steps) <= MaxRows
    /\ LET row == [experiment_uuid |-> e, run_uuid |-> r,
                   pipeline_run_id |-> next_pipeline_run_id(e)]
           new == InsertRun(non_interactive_runs, row)
           step_rows == {[experiment_uuid |-> e, run_uuid |-> r, step_uuid |-> s,
                          status |-> "PENDING"] : s \in steps}
           taken == \E t \in step_rows :
                        WithKey(non_interactive_run_pipeline_steps, t,
                                NonInteractiveRunPipelineStepKey) # {}
       IN  IF new = non_interactive_runs \/ taken
             THEN /\ db_result' = Result("create non-interactive run", UniqueFailed)
                  /\ UNCHANGED <<non_interactive_runs, non_interactive_run_pipeline_steps>>
             ELSE /\ non_interactive_runs' = new
                  /\ non_interactive_run_pipeline_steps' =
                         non_interactive_run_pipeline_steps \cup step_rows
                  /\ db_result' = Result("create non-interactive run", Ok)
    /\ UNCHANGED <<foreign_keys, experiments, interactive_runs, interactive_run_pipeline_steps>>
    /\ UNCHANGED <<session, builder, configuration>>

\* The rows that reference an experiment: pipeline_runs of the Experiment and
\* the step rows, both through ForeignKey('experiments.experiment_uuid').
Referencing(e) ==
    {t \in Rows(non_interactive_runs) \cup non_interactive_run_pipeline_steps :
        t.experiment_uuid = e}

\* An Experiment is deleted.  No relationship carries a delete cascade and no
\* foreign key an ON DELETE: with rows referencing the experiment, the
\* deletion is refused (the unit of work cannot blank a primary key column;
\* an engine that enforces foreign keys rejects the DELETE), or, on an engine
\* that does not enforce foreign keys, a DELETE statement removes the
\* experiment row alone.
DeleteExperiment(e) ==
    /\ \E t \in experiments : t.experiment_uuid = e
    /\ \/ /\ Referencing(e) = {}
          /\ experiments' = {t \in experiments : t.experiment_uuid # e}
          /\ db_result' = Result("delete experiment", Ok)
       \/ /\ Referencing(e) # {}
          /\ db_result' = Result("delete experiment", ForeignKeyFailed)
          /\ UNCHANGED experiments
       \/ /\ Referencing(e) # {}
          /\ ~foreign_keys
          /\ experiments' = {t \in experiments : t.experiment_uuid # e}
          /\ db_result' = Result("delete experiment", Ok)
    /\ UNCHANGED <<foreign_keys, interactive_runs, interactive_run_pipeline_steps,
                   non_interactive_runs, non_interactive_run_pipeline_steps>>
    /\ UNCHANGED <<session, builder, configuration>>

NoDatabase ==
    /\ foreign_keys = TRUE
    /\ experiments = {}
    /\ interactive_runs = {}
    /\ interactive_run_pipeline_steps = {}
    /\ non_interactive_runs = <<>>
    /\ non_interactive_run_pipeline_steps = {}
    /\ db_result = Result("", "")

----------------------------------------------------------------------------
\* write_config of the webserver (orchest-webserver/app/app/utils.py).
\* Every caller makes one call; a call is cut at its file-system calls.

\* Number of callers of write_config.
NumCallers == 2

Callers == 1..NumCallers

JsonKeys == {"AUTH_ENABLED", "TELEMETRY_DISABLED"}

JsonValues == {"true", "false"}

\* The text of a file is a sequence of tokens.
Token(t, k, v) == [t |-> t, k |-> k, v |-> v]

\* A dict is the sequence of its items, every key once.
Dicts ==
    {d \in UNION {[1..n -> JsonKeys \X JsonValues] : n \in 0..Cardinality(JsonKeys)} :
        \A i, j \in DOMAIN d : i # j => d[i][1] # d[j][1]}

\* d[k] = v that forgets the other items.
SetItem_only(d, k, v) == <<<<k, v>>>>

\* d[k] = v on a dict: the value of a present key is replaced in place, a new
\* key is appended.
SetItem(d, k, v) ==
    IF \E i \in DOMAIN d : d[i][1] = k
      THEN [i \in DOMAIN d |-> IF d[i][1] = k THEN <<k, v>> ELSE d[i]]
      ELSE Append(d, <<k, v>>)

\* d.update(other)
RECURSIVE Update(_, _)
Update(d, other) ==
    IF other = <<>> THEN d
    ELSE Update(SetItem(d, other[1][1], other[1][2]), Tail(other))

\* json.dump of a dict
json_dump(d) ==
    <<Token("{", "", "")>>
    \o [i \in DOMAIN d |-> Token("pair", d[i][1], d[i][2])]
    \o <<Token("}", "", "")>>

IsObjectText(text) ==
    /\ Len(text) >= 2
    /\ text[1].t = "{"
    /\ text[Len(text)].t = "}"
    /\ \A i \in 2..(Len(text) - 1) : text[i].t = "pair"

IsListText(text) == text = <<Token("[", "", ""), Token("]", "", "")>>

\* json.load: a dict, another JSON value, or an exception.
json_load(text) ==
    IF IsObjectText(text)
      THEN [raised |-> FALSE, type |-> "dict",
            value |-> Update(<<>>, [i \in 1..(Len(text) - 2) |->
                                       <<text[i + 1].k, text[i + 1].v>>])]
    ELSE IF IsListText(text)
      THEN [raised |-> FALSE, type |-> "list", value |-> <<>>]
      ELSE [raised |-> TRUE, type |-> "", value |-> <<>>]

NoFile == [exists |-> FALSE, text |-> <<>>]

File(text) == [exists |-> TRUE, text |-> text]

\* What /config/config.json can hold before the first call.
ConfigFiles ==
    {NoFile, File(<<>>), File(<<Token("{", "", ""), Token("pair", "AUTH_ENABLED", "true")>>),
     File(<<Token("[", "", ""), Token("]", "", "")>>)}
    \cup {File(json_dump(d)) : d \in Dicts}

Idle == [pc |-> "idle", key |-> "", value |-> "", conf_data |-> <<>>, before |-> NoFile]

\* write_config(app, key, value) is called; before is the file the call finds.
WriteConfigCall(c, key, value) ==
    /\ write[c].pc = "idle"
    /\ write' = [write EXCEPT ![c] = [pc |-> "isfile", key |-> key, value |-> value,
                                      conf_data |-> <<>>, before |-> config_json]]
    /\ UNCHANGED <<config_json, app_config>>
    /\ UNCHANGED <<session, builder, database>>

\* if not os.path.isfile(conf_json_path): os.system("touch " + conf_json_path)
WriteConfigTouch(c) ==
    /\ write[c].pc = "isfile"
    /\ config_json' = IF config_json.exists THEN config_json ELSE File(<<>>)
    /\ write' = [write EXCEPT ![c].pc = "load"]
    /\ UNCHANGED app_config
    /\ UNCHANGED <<session, builder, database>>

\* A call returns: its locals are gone.
Returned(c) == [write[c] EXCEPT !.pc = "returned", !.conf_data = <<>>, !.before = NoFile]

\* with open(conf_json_path, 'r') as f: conf_data = json.load(f) or {},
\* conf_data[key] = value, app.config.update(conf_data).  On a JSON value that
\* is no dict the item assignment raises, into the outer except: the call
\* prints the exception and returns.
WriteConfigLoad(c) ==
    /\ write[c].pc = "load"
    /\ LET loaded == json_load(config_json.text)
           conf_data == SetItem(IF loaded.raised THEN <<>> ELSE loaded.value,
                                write[c].key, write[c].value)
       IN  IF ~loaded.raised /\ loaded.type # "dict"
             THEN /\ write' = [write EXCEPT ![c] = Returned(c)]
                  /\ UNCHANGED app_config
             ELSE /\ write' = [write EXCEPT ![c].pc = "open", ![c].conf_data = conf_data]
                  /\ app_config' = Update(app_config, conf_data)
    /\ UNCHANGED config_json
    /\ UNCHANGED <<session, builder, database>>

\* with open(conf_json_path, 'w') as f: the file is truncated.
WriteConfigOpen(c) ==
    /\ write[c].pc = "open"
    /\ config_json' = File(<<>>)
    /\ write' = [write EXCEPT ![c].pc = "dump"]
    /\ UNCHANGED app_config
    /\ UNCHANGED <<session, builder, database>>

\* json.dump(conf_data, f), from the start of the file, over what is there;
\* then the chmod and the return.
WriteConfigDump(c) ==
    /\ write[c].pc = "dump"
    /\ LET text == json_dump(write[c].conf_data)
       IN  config_json' = File(text \o SubSeq(config_json.text, Len(text) + 1,
                                              Len(config_json.text)))
    /\ write' = [write EXCEPT ![c] = Returned(c)]
    /\ UNCHANGED app_config
    /\ UNCHANGED <<session, builder, database>>

NoConfiguration ==
    /\ config_json = NoFile
    /\ app_config = <<>>
    /\ write = [c \in Callers |-> Idle]

----------------------------------------------------------------------------
\* The session controller at rest.
NoSession ==
    /\ connection_file = <<>>
    /\ procs = [p \in Pids |-> NoProc]
    /\ pc = [w \in Workers |-> "idle"]
    /\ proc = [w \in Workers |-> 0]
    /\ line = [w \in Workers |-> ""]
    /\ lastCall = <<>>
    /\ lastGet = <<>>

Init ==
    /\ NoSession
    /\ NoBody
    /\ NoDatabase
    /\ NoConfiguration

Next ==
    \/ \E w \in Workers : Request(w)
    \/ \E w \in Workers : ServerGetExists(w)
    \/ \E w \in Workers : ServerGetLoad(w)
    \/ \E w \in Workers : ServerPostPopen(w)
    \/ \E w \in Workers : ServerPostReadline(w)
    \/ \E w \in Workers : ServerPostLoad(w)
    \/ \E w \in Workers : ServerDeleteShutdown(w)
    \/ \E w \in Workers : ServerDeleteRemove(w)
    \/ \E p \in Pids : ChildWriteInfo(p)
    \/ \E p \in Pids : ChildPrintReady(p)
    \/ \E p \in Pids : ChildExit(p)

\* Requests handled by independent workers, with no lock.
Spec == Init /\ [][Next]_vars

\* Callers that serialize access: a request is made only when no other is in
\* the controller.

SerialRequest(w) == Alone(w) /\ Request(w)

SerialNext ==
    \/ \E w \in Workers : SerialRequest(w)
    \/ \E w \in Workers : ServerGetExists(w)
    \/ \E w \in Workers : ServerGetLoad(w)
    \/ \E w \in Workers : ServerPostPopen(w)
    \/ \E w \in Workers : ServerPostReadline(w)
    \/ \E w \in Workers : ServerPostLoad(w)
    \/ \E w \in Workers : ServerDeleteShutdown(w)
    \/ \E w \in Workers : ServerDeleteRemove(w)
    \/ \E p \in Pids : ChildWriteInfo(p)
    \/ \E p \in Pids : ChildPrintReady(p)
    \/ \E p \in Pids : ChildExit(p)

SerialSpec == Init /\ [][SerialNext]_vars

----------------------------------------------------------------------------
\* The argument builder on every request body.
ArgsInit ==
    /\ post_body \in Bodies
    /\ popen_args = <<>>
    /\ NoSession
    /\ NoDatabase
    /\ NoConfiguration

ArgsNext ==
    \/ ReceiveBody
    \/ BuildArgs

ArgsSpec == ArgsInit /\ [][ArgsNext]_vars

\* The database, on an engine that enforces foreign keys or on one that does not.
DbInit ==
    /\ foreign_keys \in BOOLEAN
    /\ experiments = {}
    /\ interactive_runs = {}
    /\ interactive_run_pipeline_steps = {}
    /\ non_interactive_runs = <<>>
    /\ non_interactive_run_pipeline_steps = {}
    /\ db_result = Result("", "")
    /\ NoSession
    /\ NoBody
    /\ NoConfiguration

DbNext ==
    \/ \E e \in ExperimentUuids : InsertExperiment(e)
    \/ \E r \in RunUuids : InsertInteractiveRun(r)
    \/ \E r \in RunUuids, s \in StepUuids, st \in Statuses :
           InsertInteractiveRunPipelineStep(r, s, st)
    \/ \E e \in ExperimentUuids, r \in RunUuids, s \in StepUuids, st \in Statuses :
           InsertNonInteractiveRunPipelineStep(e, r, s, st)
    \/ \E e \in ExperimentUuids, r \in RunUuids, steps \in SUBSET StepUuids :
           CreateNonInteractiveRun(e, r, steps)
    \/ \E e \in ExperimentUuids : DeleteExperiment(e)

DbSpec == DbInit /\ [][DbNext]_vars

\* write_config called by concurrent callers, on every initial file.
ConfigInit ==
    /\ config_json \in ConfigFiles
    /\ app_config = <<>>
    /\ write = [c \in Callers |-> Idle]
    /\ NoSession
    /\ NoBody
    /\ NoDatabase

ConfigNext ==
    \/ \E c \in Callers, key \in JsonKeys, value \in JsonValues : WriteConfigCall(c, key, value)
    \/ \E c \in Callers : WriteConfigTouch(c)
    \/ \E c \in Callers : WriteConfigLoad(c)
    \/ \E c \in Callers : WriteConfigOpen(c)
    \/ \E c \in Callers : WriteConfigDump(c)

ConfigSpec == ConfigInit /\ [][ConfigNext]_vars

\* write_config called by one caller at a time.
Outside(c) == \A d \in Callers \ {c} : write[d].pc \in {"idle", "returned"}

SerialWriteConfigCall(c, key, value) == Outside(c) /\ WriteConfigCall(c, key, value)

SerialConfigNext ==
    \/ \E c \in Callers, key \in JsonKeys, value \in JsonValues :
           SerialWriteConfigCall(c, key, value)
    \/ \E c \in Callers : WriteConfigTouch(c)
    \/ \E c \in Callers : WriteConfigLoad(c)
    \/ \E c \in Callers : WriteConfigOpen(c)
    \/ \E c \in Callers : WriteConfigDump(c)

SerialConfigSpec == ConfigInit /\ [][SerialConfigNext]_vars

----------------------------------------------------------------------------
\* Vocabulary of the properties.

\* The response body carries exactly the fields of the descriptor `data`.
FieldsEqual(body, data) ==
    /\ DOMAIN body = ServerFields
    /\ DOMAIN data = ServerFields
    /\ \A k \in ServerFields : body[k] = data[k]

NotFound == Message(404, "No running server")

Stopped == Message(200, "Server shutdown was successful")

\* Worker w returns from get / post / delete in this step.
GetReturns(w) == pc[w] \in {"get_exists", "get_load"} /\ pc'[w] = "idle"

PostReturns(w) == pc[w] = "post_load" /\ pc'[w] = "idle"

DeleteReturns(w) == pc[w] \in {"delete_shutdown", "delete_remove"} /\ pc'[w] = "idle"

\* The last start/stop was a start that read the readiness line and returned 201.
StartedReady(c) ==
    /\ c # <<>>
    /\ c[1].op = "post"
    /\ c[1].response.code = 201
    /\ c[1].ready

\* The last start/stop was a stop that returned response r.
StopReturned(c, r) ==
    /\ c # <<>>
    /\ c[1].op = "delete"
    /\ c[1].response = r

\* The last get returned response r.
GetReturned(g, r) == g # <<>> /\ g[1].response = r

----------------------------------------------------------------------------
\* C1: under serialized calls, a start that has read the readiness line
\* returns 201 with the fields of the descriptor on file, which is the one
\* its own child wrote; and a get that follows it, no start or stop in
\* between, returns 200 with the same fields, those of the file.
C1_StartThenGet ==
    [][\A w \in Workers :
         /\ (PostReturns(w) /\ line[w] # "") =>
              /\ connection_file # <<>>
              /\ connection_file[1].pid = proc[w]
              /\ StartedReady(lastCall')
              /\ FieldsEqual(lastCall'[1].response.body[1], connection_file[1])
         /\ (GetReturns(w) /\ StartedReady(lastCall)) =>
              /\ connection_file # <<>>
              /\ lastGet' # <<>>
              /\ lastGet'[1].response.code = 200
              /\ FieldsEqual(lastGet'[1].response.body[1], connection_file[1])
              /\ lastGet'[1].response.body = lastCall[1].response.body
      ]_vars

\* A start with base_url /lab returned 201 after the readiness line, and the
\* get after it returned 200 with the same descriptor.
C1_Witness ==
    /\ StartedReady(lastCall)
    /\ lastGet # <<>>
    /\ lastGet[1].response.code = 200
    /\ lastGet[1].response.body = lastCall[1].response.body
    /\ lastGet[1].response.body[1].base_url = "/lab"
    /\ connection_file # <<>>
    /\ lastGet[1].response.body[1].pid = connection_file[1].pid

C3_StopWithoutSession ==
    [][\A w \in Workers :
         (pc[w] = "delete_shutdown" /\ pc'[w] # pc[w] /\ connection_file = <<>>) =>
              /\ pc'[w] = "idle"
              /\ StopReturned(lastCall', NotFound)
              /\ connection_file' = <<>>
              /\ procs' = procs
      ]_vars

\* A stop returned 404 with no file on disk, a server having run and ended.
C3_Witness ==
    /\ StopReturned(lastCall, NotFound)
    /\ connection_file = <<>>
    /\ \E p \in Pids : procs[p].status = "exited"
    /\ \A w \in Workers : pc[w] = "idle"

\* C4: under serialized calls, when termination reports failure the stop
\* returns 404 and the file is as it was; when it reports success the file
\* is removed and the stop returns 200.
C4_RemoveOnlyOnSuccess ==
    [][\A w \in Workers :
         /\ (pc[w] = "delete_shutdown" /\ pc'[w] # pc[w]) =>
              /\ connection_file' = connection_file
              /\ IF shutdown_jupyter_server(connection_file)
                   THEN pc'[w] = "delete_remove"
                   ELSE DeleteReturns(w) /\ StopReturned(lastCall', NotFound)
         /\ (pc[w] = "delete_remove" /\ pc'[w] # pc[w]) =>
              /\ connection_file # <<>>
              /\ connection_file' = <<>>
              /\ DeleteReturns(w)
              /\ StopReturned(lastCall', Stopped)
      ]_vars

\* Termination reported failure with a descriptor on file (its server had
\* ended): the stop returned 404 and the file is still there.
C4_Witness ==
    /\ StopReturned(lastCall, NotFound)
    /\ connection_file # <<>>
    /\ ~Running(connection_file[1].pid)
    /\ \A w \in Workers : pc[w] = "idle"

\* C5: under serialized calls, a get with no file returns 404 'No running
\* server', a get with a file returns 200 with that file's fields, and no
\* step of a get changes the file or a process.
C5_GetReadsOnly ==
    [][\A w \in Workers :
         /\ (pc[w] = "get_exists" /\ pc'[w] # pc[w] /\ connection_file = <<>>) =>
              GetReturns(w) /\ GetReturned(lastGet', NotFound)
         /\ (pc[w] = "get_exists" /\ pc'[w] # pc[w] /\ connection_file # <<>>) =>
              pc'[w] = "get_load"
         /\ (pc[w] = "get_load" /\ pc'[w] # pc[w]) =>
              /\ connection_file # <<>>
              /\ GetReturns(w)
              /\ lastGet' # <<>>
              /\ lastGet'[1].response.code = 200
              /\ FieldsEqual(lastGet'[1].response.body[1], connection_file[1])
         /\ (pc[w] \in {"get_exists", "get_load"} /\ pc'[w] # pc[w]) =>
              /\ connection_file' = connection_file
              /\ procs' = procs
      ]_vars

\* A get returned 200 with the descriptor that is still on file.
C5_Witness ==
    /\ lastGet # <<>>
    /\ lastGet[1].response.code = 200
    /\ connection_file # <<>>
    /\ FieldsEqual(lastGet[1].response.body[1], connection_file[1])
    /\ \A w \in Workers : pc[w] = "idle"

\* C6: under serialized calls, a get that follows a get, with no start, no
\* stop and no write of the file in between, returns what the first returned.
C6_GetTwice ==
    [][\A w \in Workers :
         (GetReturns(w) /\ lastGet # <<>>) =>
              /\ lastGet' # <<>>
              /\ lastGet'[1].response = lastGet[1].response
      ]_vars

\* A second get in a row returned a descriptor.
C6_Witness ==
    /\ lastGet # <<>>
    /\ lastGet[1].again
    /\ lastGet[1].response.code = 200

----------------------------------------------------------------------------
\* C7: a start spawns whatever the handshake file holds and whatever servers
\* are running: at the spawn, post is never held back while a pid is free,
\* and the spawn leaves the file and every running server as they were and
\* adds one server.
C7_StartUnchecked ==
    [][\A w \in Workers :
         /\ (pc[w] = "post_popen" /\ \E p \in Pids : procs[p].status = "none") =>
              ENABLED ServerPostPopen(w)
         /\ (pc[w] = "post_popen" /\ pc'[w] = "post_readline") =>
              /\ connection_file' = connection_file
              /\ \A p \in Alive : procs'[p] = procs[p]
              /\ proc'[w] \notin Alive
              /\ Alive' = Alive \cup {proc'[w]}
      ]_vars

\* Two servers are running, every call has returned, and the one descriptor
\* names the second: no stop can reach the first.
C7_Witness ==
    /\ \A w \in Workers : pc[w] = "idle"
    /\ Cardinality(Alive) = 2
    /\ connection_file # <<>>
    /\ connection_file[1].pid \in Alive
    /\ \E p \in Alive : p < connection_file[1].pid

\* The state of the session: Starting from the spawn to the return of a
\* start, else Running while a descriptor is on file, else Absent.
SessionState ==
    IF \E w \in Workers : pc[w] \in {"post_readline", "post_load"} THEN "Starting"
    ELSE IF connection_file # <<>> THEN "Running"
    ELSE "Absent"

\* C8 as claimed: the session changes state only Absent -> Starting at a
\* spawn, Starting -> Running at the return of a start, and Running -> Absent
\* at the successful return of a stop.
C8_StateMachine ==
    [][SessionState' # SessionState =>
         \/ /\ SessionState = "Absent" /\ SessionState' = "Starting"
            /\ \E w \in Workers : pc[w] = "post_popen" /\ pc'[w] = "post_readline"
         \/ /\ SessionState = "Starting" /\ SessionState' = "Running"
            /\ \E w \in Workers : PostReturns(w)
         \/ /\ SessionState = "Running" /\ SessionState' = "Absent"
            /\ \E w \in Workers : pc[w] = "delete_remove" /\ DeleteReturns(w)
      ]_vars

\* The child of worker w's start has ended without writing a line.
ChildCrashed(w) ==
    /\ pc[w] = "post_readline"
    /\ ~Running(proc[w])
    /\ procs[proc[w]].stdout = <<>>

\* C9 as claimed: a start whose child has ended before writing its line
\* stays blocked on the read.
C9_BlocksForever ==
    [][\A w \in Workers : ChildCrashed(w) => pc'[w] = "post_readline"]_vars

\* C9 as amended: a start whose child has ended before writing its line is
\* not blocked: the read can return, and when it does it has read the end of
\* the file (the empty string) and the start goes on to the handshake file.
\* The start is blocked exactly while its child runs and has written no line.
C9_ReadReturnsAtEOF ==
    [][\A w \in Workers :
         /\ ChildCrashed(w) =>
              /\ ENABLED ServerPostReadline(w)
              /\ pc'[w] # pc[w] => (pc'[w] = "post_load" /\ line'[w] = "")
         /\ (pc[w] = "post_readline" /\ Running(proc[w]) /\ procs[proc[w]].stdout = <<>>) =>
              /\ ~ENABLED ServerPostReadline(w)
              /\ pc'[w] = pc[w]
      ]_vars

\* A start has read the end of the file of a child that wrote no line and
\* stands before the handshake file.
C9_Witness ==
    \E w \in Workers :
        /\ pc[w] = "post_load"
        /\ line[w] = ""
        /\ procs[proc[w]].status = "exited"

\* C10 as claimed: no call ends in a fault.
C10_NoUncaughtFault ==
    /\ lastGet # <<>> => lastGet[1].response.code # 500
    /\ lastCall # <<>> => lastCall[1].response.code # 500

----------------------------------------------------------------------------
C12_DeleteCascades ==
    [][\A e \in ExperimentUuids :
          (/\ \E t \in experiments : t.experiment_uuid = e
           /\ ~ \E t \in experiments' : t.experiment_uuid = e)
          => Referencing(e)' = {}]_vars

\* No two rows of a table hold the same primary key.
UniqueKey(table, key) == \A a, b \in table : (\A c \in key : a[c] = b[c]) => a = b

\* C13: no two InteractiveRunPipelineStep rows share (run_uuid, step_uuid), no
\* two NonInteractiveRunPipelineStep rows share (experiment_uuid, run_uuid,
\* step_uuid); an insertion that would duplicate a key is refused and leaves
\* the tables as they were.
C13_StepIdentityUnique ==
    /\ [](/\ UniqueKey(interactive_run_pipeline_steps, InteractiveRunPipelineStepKey)
          /\ UniqueKey(non_interactive_run_pipeline_steps, NonInteractiveRunPipelineStepKey))
    /\ [][db_result'.outcome = UniqueFailed
            => UNCHANGED <<interactive_run_pipeline_steps,
                           non_interactive_run_pipeline_steps>>]_vars

\* Both step tables hold a row and the insertion of a step under a taken key
\* has just been refused.
C13_Witness ==
    /\ interactive_run_pipeline_steps # {}
    /\ non_interactive_run_pipeline_steps # {}
    /\ db_result.outcome = UniqueFailed
    /\ db_result.statement \in {"insert interactive step", "insert non-interactive step"}

----------------------------------------------------------------------------
\* C14: startSession reads the handshake file only after it has received a
\* line from the child's stdout (spawn, readiness line received, registry
\* read, return), and what it returns is decided by the file alone, not by
\* the content of the line.
C14_ReadAfterReadinessLine ==
    [][\A w \in Workers :
          PostReturns(w) =>
              /\ line[w] \in Lines
              /\ lastCall' # <<>> =>
                     lastCall'[1].response =
                         IF connection_file = <<>> THEN Fault("FileNotFoundError")
                         ELSE Descriptor(201, marshal(connection_file[1]))]_vars

\* C15: the argument list is the prefix python, -u, start script followed by
\* exactly one --key=value per entry of the request body, in the body's
\* iteration order, none dropped, duplicated or altered.
C15_ArgsPerEntry ==
    popen_args # <<>> =>
        LET a == popen_args[1]
        IN  /\ Len(a) = 3 + Len(post_body)
            /\ SubSeq(a, 1, 3) = <<"python", "-u", start_script>>
            /\ \A i \in DOMAIN post_body :
                   a[3 + i] = <<"--", post_body[i][1], "=", post_body[i][2]>>

\* The argument list of a body of several entries has been built.
C15_Witness ==
    /\ popen_args # <<>>
    /\ Len(post_body) >= 2

\* C16: whenever the handshake file is absent and no startSession is in
\* progress, no server process spawned by startSession is still running.
C16_NoServerLeftRunning ==
    (/\ connection_file = <<>>
     /\ \A w \in Workers : pc[w] \notin {"post_popen", "post_readline", "post_load"})
    => Alive = {}

\* C17: a get completes with 200 and a descriptor or with 404, whatever a
\* concurrent stop does between its existence check and its read.
C17_GetNeverFails ==
    lastGet # <<>> => lastGet[1].response.code \in {200, 404}

----------------------------------------------------------------------------
\* The key-value pairs written in the text of a JSON object.
ObjectItems(text) == {<<text[i].k, text[i].v>> : i \in 2..(Len(text) - 1)}

\* The text of the object {key: value}.
SinglePair(key, value) == <<Token("{", "", ""), Token("pair", key, value), Token("}", "", "")>>

WriteConfigReturns(c) == write[c].pc # "returned" /\ write'[c].pc = "returned"

\* C18: a call of write_config(app, key, value) that finds a valid JSON object
\* in the file leaves the file holding that object with key set to value and
\* every other pair as it was, and app.config holding all of those pairs; a
\* call that finds the file missing, empty or unparseable leaves it holding
\* exactly {key: value}.
C18_WriteConfigFrame ==
    [][\A c \in Callers :
          WriteConfigReturns(c) =>
              LET before == write[c].before
                  key == write[c].key
                  value == write[c].value
                  after == config_json'.text
              IN  /\ (before.exists /\ IsObjectText(before.text)) =>
                         /\ config_json'.exists
                         /\ IsObjectText(after)
                         /\ ObjectItems(after) =
                                {it \in ObjectItems(before.text) : it[1] # key}
                                \cup {<<key, value>>}
                         /\ Cardinality(ObjectItems(after)) = Len(after) - 2
                         /\ ObjectItems(after) \subseteq {app_config'[i] : i \in DOMAIN app_config'}
                  /\ (~before.exists \/ (~IsObjectText(before.text) /\ ~IsListText(before.text))) =>
                         config_json' = File(SinglePair(key, value))]_vars

\* A call has returned and the file holds its pair next to a pair of another key.
C18_Witness ==
    \E c \in Callers :
        /\ write[c].pc = "returned"
        /\ IsObjectText(config_json.text)
        /\ <<write[c].key, write[c].value>> \in ObjectItems(config_json.text)
        /\ \E it \in ObjectItems(config_json.text) : it[1] # write[c].key

\* C19: once the calls of write_config have returned, the file holds the pair
\* of every call whose key no other call wrote: concurrent calls with distinct
\* keys both take effect.
C19_BothTakeEffect ==
    (/\ \A c \in Callers : write[c].pc = "returned"
     /\ ~IsListText(config_json.text))
    => \A c \in Callers :
           (\A d \in Callers \ {c} : write[d].key # write[c].key)
           => /\ IsObjectText(config_json.text)
              /\ <<write[c].key, write[c].value>> \in ObjectItems(config_json.text)

====
